---- MODULE Spec2Model ----
(***************************************************************************)
(* ivplot: incremental multi-panel composition of transistor I-V sweeps.   *)
(* The model follows src/ivplot.py: a figure object that carries two       *)
(* colour-axis ranges, a label->colour table and an ordered trace list,    *)
(* and the public function ivplot that creates or overlays such a figure.  *)
(* Floating point voltages are small integers plus the three special       *)
(* values NaN, +inf and -inf; a downsampling cap is counted in halves so    *)
(* that floor() has something to do.                                       *)
(*                                                                         *)
(* Six kinds of runs: Spec, up to MaxCalls calls of a caller on a small    *)
(* set of datasets; SpecCall, one call with every small record list, on no *)
(* figure or on the figure of an earlier call; SpecStyle, one call with     *)
(* every opacity, colour override and surface switch; SpecLabels, calls on *)
(* a figure that earlier calls have given up to MaxPre labels; SpecDown,   *)
(* _downsample alone on every small input; SpecAlpha, adaptive_alpha alone *)
(* on every sample count up to MaxN.  Opacities are exact multiples of     *)
(* 1 / AlphaUnit, not IEEE doubles.  Writing the HTML file and opening the *)
(* browser are left out.                                                   *)
(***************************************************************************)
EXTENDS Integers, Sequences, FiniteSets, TLC

VARIABLES fig, returned, call, probe

vars == <<fig, returned, call, probe>>

(* ------------------------------ floats --------------------------------- *)
PosInf == 99
NegInf == 0 - PosInf
NaN == 100

IsFinite(v) == v # NaN /\ v # PosInf /\ v # NegInf

\* IEEE comparison: every comparison with NaN is false
Lt(a, b) == a # NaN /\ b # NaN /\ a < b

\* Python's builtin min(a, b) / max(a, b): the first argument unless the
\* second is strictly smaller / larger
PyMin(a, b) == IF Lt(b, a) THEN b ELSE a
PyMax(a, b) == IF Lt(a, b) THEN b ELSE a

RECURSIVE FoldMin(_)
FoldMin(s) ==
    IF Len(s) = 1 THEN s[1]
    ELSE LET m == FoldMin(Tail(s)) IN IF s[1] < m THEN s[1] ELSE m

RECURSIVE FoldMax(_)
FoldMax(s) ==
    IF Len(s) = 1 THEN s[1]
    ELSE LET m == FoldMax(Tail(s)) IN IF s[1] > m THEN s[1] ELSE m

NotNaN(v) == v # NaN

\* numpy.nanmin / numpy.nanmax on a non-empty array: NaN entries are skipped,
\* an all-NaN array gives NaN (with a warning); infinities take part
nanmin(values) ==
    LET rest == SelectSeq(values, NotNaN)
    IN IF rest = <<>> THEN NaN ELSE FoldMin(rest)

nanmax(values) ==
    LET rest == SelectSeq(values, NotNaN)
    IN IF rest = <<>> THEN NaN ELSE FoldMax(rest)

(* ------------------------------ helpers -------------------------------- *)
\* one statement after another: the value v of the first, worked out once,
\* is handed to the rest
Then(v, rest(_)) == CHOOSE r \in {rest(x) : x \in {v}} : TRUE

\* a variant of pandas.concat that takes an empty list
concat_raises_never(frames) == FALSE

\* pandas.concat raises ValueError on an empty list of frames
concat_raises(frames) == frames = <<>>

RECURSIVE concat(_)
concat(frames) ==
    IF frames = <<>> THEN <<>> ELSE Head(frames) \o concat(Tail(frames))

\* rng.choice(N, size=k, replace=False): the generator is represented by the
\* permutation perm of 1..Len(perm) it would deal; the draw is the first k
\* positions of that permutation that lie in 1..N
InRange(perm, N) == SelectSeq(perm, LAMBDA i : i <= N)

\* a variant that draws with replacement and deals one position k times
choice_repeat(perm, N, k) == [j \in 1..k |-> InRange(perm, N)[1]]

choice(perm, N, k) == SubSeq(InRange(perm, N), 1, k)

\* max_samples is PosInf (unset) or a number of half samples
floor(halves) == halves \div 2

downsample(samples, max_samples, perm) ==
    LET N == Len(samples)
        k == IF floor(max_samples) > 1 THEN floor(max_samples) ELSE 1
        idx == choice(perm, N, k)
    IN IF max_samples = PosInf \/ max_samples >= 2 * N
       THEN [ok |-> TRUE, samples |-> samples, idx |-> [j \in 1..N |-> j]]
       ELSE IF N = 0
            THEN [ok |-> FALSE, samples |-> <<>>, idx |-> <<>>]
            ELSE [ok |-> TRUE, samples |-> [j \in 1..k |-> samples[idx[j]]],
                  idx |-> idx]

\* a variant that lets a zero current through
Positive_orzero(r) == r.ids >= 0

Positive(r) == r.ids > 0

\* the boolean mask ids > 0, as the subsequence of samples it selects
log_ids(samples) == SelectSeq(samples, Positive)

\* opacity in units of 1/9000
AlphaUnit == 9000

\* a variant whose line falls by 0.7 over 1000 samples instead of 900
adaptive_alpha_flat(n0) ==
    LET n == IF n0 > 1 THEN n0 ELSE 1
    IN IF n <= 100 THEN (8 * AlphaUnit) \div 10
       ELSE IF n >= 1000 THEN AlphaUnit \div 10
       ELSE (8 * AlphaUnit) \div 10 - (n - 100) * ((7 * AlphaUnit) \div 10000)

adaptive_alpha(n0) ==
    LET n == IF n0 > 1 THEN n0 ELSE 1
    IN IF n <= 100 THEN (8 * AlphaUnit) \div 10
       ELSE IF n >= 1000 THEN AlphaUnit \div 10
       ELSE (8 * AlphaUnit) \div 10 - (n - 100) * ((7 * AlphaUnit) \div 9000)

(* ------------------------------ figure --------------------------------- *)
NoFig == [layout |-> "none"]

Title0 == "Transistor Curves"

\* subplot type at a grid position; "none" when the position is off the grid
GridType(layout, row, col) ==
    IF layout = "scenes"
    THEN IF row \in {1, 2} /\ col = 1 THEN "scene" ELSE "none"
    ELSE IF row \in {1, 2} /\ col \in {1, 3} THEN "xy"
         ELSE IF row \in {1, 2} /\ col = 2 THEN "scene" ELSE "none"

NewFig(view) ==
    [layout |-> IF view = "3d" THEN "scenes" ELSE "six",
     ivgs_vds_range |-> <<PosInf, NegInf>>,
     ivds_vgs_range |-> <<PosInf, NegInf>>,
     coloraxis |-> <<>>,
     coloraxis2 |-> <<>>,
     has_label_colors |-> FALSE,
     label_colors |-> <<>>,
     title |-> <<Title0>>,
     traces |-> <<>>]

\* a variant that builds a new layout on every call
ensure_fig_rebuild(f, view) == NewFig(view)

ensure_fig(f, view) == IF f # NoFig THEN f ELSE NewFig(view)

\* a variant that stores the range of the latest values alone
update_coloraxis_range_latest(f, which, values) ==
    IF values = <<>>
    THEN [ok |-> FALSE, f |-> f]
    ELSE LET vmin == nanmin(values)
             vmax == nanmax(values)
         IN IF which = 1
            THEN [ok |-> TRUE,
                  f |-> [f EXCEPT !.ivgs_vds_range = <<vmin, vmax>>,
                                  !.coloraxis = <<vmin, vmax>>]]
            ELSE [ok |-> TRUE,
                  f |-> [f EXCEPT !.ivds_vgs_range = <<vmin, vmax>>,
                                  !.coloraxis2 = <<vmin, vmax>>]]

update_coloraxis_range(f, which, values) ==
    IF values = <<>>
    THEN [ok |-> FALSE, f |-> f]
    ELSE LET vmin == nanmin(values)
             vmax == nanmax(values)
         IN IF which = 1
            THEN LET lo == PyMin(f.ivgs_vds_range[1], vmin)
                     hi == PyMax(f.ivgs_vds_range[2], vmax)
                 IN [ok |-> TRUE,
                     f |-> [f EXCEPT !.ivgs_vds_range = <<lo, hi>>,
                                     !.coloraxis = <<lo, hi>>]]
            ELSE LET lo == PyMin(f.ivds_vgs_range[1], vmin)
                     hi == PyMax(f.ivds_vgs_range[2], vmax)
                 IN [ok |-> TRUE,
                     f |-> [f EXCEPT !.ivds_vgs_range = <<lo, hi>>,
                                     !.coloraxis2 = <<lo, hi>>]]

\* fig.add_trace(trace, row, col): the position must be on the grid and the
\* trace type must fit the subplot type there
TraceKind(tr) == IF tr.type = "scatter" THEN "xy" ELSE "scene"

add_trace(f, tr) ==
    IF GridType(f.layout, tr.row, tr.col) = TraceKind(tr)
    THEN [ok |-> TRUE, f |-> [f EXCEPT !.traces = Append(@, tr)]]
    ELSE [ok |-> FALSE, f |-> f]

(* ------------------------------ ivplot --------------------------------- *)
\* a variant whose default kind is the gate sweep
KindOf_gate(sweep) == IF sweep.type = "absent" THEN "g" ELSE sweep.type

\* sweep.get('type', 'both')
KindOf(sweep) == IF sweep.type = "absent" THEN "both" ELSE sweep.type

IsGate(sweep) == KindOf(sweep) \in {"g", "both"}
IsDrain(sweep) == KindOf(sweep) \in {"d", "both"}

GatePool(sweeps) == SelectSeq(sweeps, IsGate)
DrainPool(sweeps) == SelectSeq(sweeps, IsDrain)

DataOf(sweeps) == [i \in 1..Len(sweeps) |-> sweeps[i].data]

Column(samples, name) ==
    [i \in 1..Len(samples) |->
        IF name = "vds" THEN samples[i].vds ELSE samples[i].vgs]

\* alpha or adaptive_alpha(len(mask)); AlphaNone stands for alpha=None
AlphaNone == 0 - 1

alpha_effective(alpha, n) ==
    IF alpha = AlphaNone \/ alpha = 0 THEN adaptive_alpha(n) ELSE alpha

NameOf(label) == IF label # "" THEN label ELSE "dataset"

Scatter(row, col, samples, yscale, cvar, axis, opacity, label) ==
    [type |-> "scatter", row |-> row, col |-> col, samples |-> samples,
     yscale |-> yscale, cvar |-> cvar, coloraxis |-> axis, color |-> "",
     opacity |-> opacity, name |-> NameOf(label), showlegend |-> FALSE]

\* one 2D column: the pool of records, its range update, its log and its
\* linear trace.  which = 1 is the left column (x = Vgs, colour = Vds),
\* which = 2 the right column (x = Vds, colour = Vgs)
Column2D(f, a, which) ==
    LET pool == IF which = 1 THEN GatePool(a.sweeps) ELSE DrainPool(a.sweeps)
        col == IF which = 1 THEN 1 ELSE 3
        cvar == IF which = 1 THEN "vds" ELSE "vgs"
        axis == IF which = 1 THEN "coloraxis" ELSE "coloraxis2"
    IN IF pool = <<>> THEN [ok |-> TRUE, f |-> f]
       ELSE Then(downsample(concat(DataOf(pool)), a.max_samples, a.perm),
            LAMBDA ds :
            IF ~ds.ok THEN [ok |-> FALSE, f |-> f]
            ELSE LET samples == ds.samples
                     masked == log_ids(samples)
                     opacity == alpha_effective(a.alpha, Len(samples))
                 IN Then(update_coloraxis_range(f, which, Column(samples, cvar)),
                    LAMBDA r1 :
                    IF ~r1.ok THEN r1
                    ELSE Then(IF masked # <<>>
                              THEN add_trace(r1.f,
                                     Scatter(1, col, masked, "log10", cvar,
                                             axis, opacity, a.label))
                              ELSE r1,
                         LAMBDA r2 :
                         IF ~r2.ok THEN r2
                         ELSE add_trace(r2.f,
                                Scatter(2, col, samples, "lin", cvar,
                                        axis, opacity, a.label)))))

Palette ==
    <<"crimson", "royalblue", "darkorange", "seagreen", "purple",
      "deeppink", "dodgerblue", "chocolate", "limegreen">>

LabelSet(table) == {table[i].label : i \in 1..Len(table)}

ColorOf(table, label) ==
    table[CHOOSE i \in 1..Len(table) : table[i].label = label].color

\* a variant that counts the new label before taking the palette entry
assign_label_color_next(table, label) ==
    IF label \in LabelSet(table) THEN table
    ELSE Append(table, [label |-> label,
                        color |-> Palette[((Len(table) + 1) % Len(Palette)) + 1]])

\* fig._label_colors[label] = _palette[len(fig._label_colors) % len(_palette)]
assign_label_color(table, label) ==
    IF label \in LabelSet(table) THEN table
    ELSE Append(table, [label |-> label,
                        color |-> Palette[(Len(table) % Len(Palette)) + 1]])

\* matplotlib.tri.Triangulation was imported
HasTriangulation == TRUE

\* _Triangulation(x, y) raises unless all points are finite and some three
\* of them are not on one line
Cross(p, q, r) ==
    (q.vgs - p.vgs) * (r.vds - p.vds) - (r.vgs - p.vgs) * (q.vds - p.vds)

triangulation_raises(samples) ==
    \/ \E i \in 1..Len(samples) :
          ~IsFinite(samples[i].vgs) \/ ~IsFinite(samples[i].vds)
    \/ \A i, j, k \in 1..Len(samples) :
          Cross(samples[i], samples[j], samples[k]) = 0

\* a variant that shows the legend entry in both scenes
showlegend_both(label, row) == label # ""

\* showlegend=True if (label and row == 1) else False
showlegend(label, row) == label # "" /\ row = 1

\* the nested helper _add_3d(row, x, y, z)
add_3d(f, a, row, samples, yscale, this_color, opacity) ==
    LET legend == showlegend(a.label, row)
    IN IF a.surf /\ HasTriangulation /\ Len(samples) >= 3
       THEN IF triangulation_raises(samples) THEN [ok |-> FALSE, f |-> f]
            ELSE add_trace(f,
              [type |-> "mesh3d", row |-> row, col |-> 2,
               samples |-> samples, yscale |-> yscale, cvar |-> "",
               coloraxis |-> "", color |-> a.color, opacity |-> opacity,
               name |-> NameOf(a.label), showlegend |-> legend])
       ELSE add_trace(f,
              [type |-> "scatter3d", row |-> row, col |-> 2,
               samples |-> samples, yscale |-> yscale, cvar |-> "",
               coloraxis |-> "", color |-> this_color, opacity |-> opacity,
               name |-> NameOf(a.label), showlegend |-> legend])

\* the middle column: both 3D scenes
Middle3D(f, a) ==
    IF concat_raises(DataOf(a.sweeps)) THEN [ok |-> FALSE, f |-> f]
    ELSE Then(downsample(concat(DataOf(a.sweeps)), a.max_samples, a.perm),
         LAMBDA ds :
         IF ~ds.ok THEN [ok |-> FALSE, f |-> f]
         ELSE LET samples == ds.samples
                  masked == log_ids(samples)
                  opacity == alpha_effective(a.alpha, Len(samples))
                  table == IF a.label # ""
                           THEN assign_label_color(f.label_colors, a.label)
                           ELSE f.label_colors
                  this_color == IF a.label # "" THEN ColorOf(table, a.label)
                                ELSE IF a.color # "" THEN a.color ELSE "gray"
              IN Then([f EXCEPT !.has_label_colors = TRUE,
                                !.label_colors = table],
                 LAMBDA f1 :
                 Then(IF masked # <<>>
                      THEN add_3d(f1, a, 1, masked, "log10", this_color, opacity)
                      ELSE [ok |-> TRUE, f |-> f1],
                 LAMBDA r2 :
                 IF ~r2.ok THEN r2
                 ELSE Then(add_3d(r2.f, a, 2, samples, "lin", this_color,
                                  opacity),
                      LAMBDA r3 :
                      IF ~r3.ok THEN r3
                      ELSE IF a.label # ""
                      THEN [ok |-> TRUE,
                            f |-> [r3.f EXCEPT !.title = <<Title0, a.label>>]]
                      ELSE r3))))

\* a variant that fills the right column for the view vgs as well
wants_drain_too(view) == view \in {"vgs", "vds", "all"}

\* if view in ['vds', 'all']
wants_drain(view) == view \in {"vds", "all"}

\* ivplot(sweeps, fig, view, ...): ok is FALSE when the call raises; f is the
\* figure object as the call leaves it
ivplot(f0, a) ==
    Then(ensure_fig(f0, a.view),
    LAMBDA f :
    Then(IF a.view \in {"vgs", "all"} THEN Column2D(f, a, 1)
         ELSE [ok |-> TRUE, f |-> f],
    LAMBDA s1 :
    IF ~s1.ok THEN s1
    ELSE Then(IF wants_drain(a.view) THEN Column2D(s1.f, a, 2) ELSE s1,
         LAMBDA s2 :
         IF ~s2.ok THEN s2
         ELSE IF a.view \in {"3d", "all"} THEN Middle3D(s2.f, a) ELSE s2)))

(* ------------------------------ inputs --------------------------------- *)
MaxCalls == 2
MaxRecs == 2
MaxRows == 3
MaxPool == 2
MaxPre == 9

Row(vgs, vds, ids) == [vgs |-> vgs, vds |-> vds, ids |-> ids]

RowPos == Row(1, 2, 1)
RowZero == Row(3, 0, 0)
RowHigh == Row(4, 5, 2)
RowNaN == Row(NaN, NaN, 3)
RowInf == Row(NegInf, PosInf, 0 - 1)

Rec(type, data) == [type |-> type, data |-> data]

SeqsUpTo(S, n) == UNION {[1..k -> S] : k \in 0..n}

Perms(n) == {p \in [1..n -> 1..n] : \A i, j \in 1..n : p[i] = p[j] => i = j}

Args(sweeps, view, label, max_samples, perm) ==
    [sweeps |-> sweeps, view |-> view, label |-> label,
     max_samples |-> max_samples, perm |-> perm,
     alpha |-> AlphaNone, color |-> "", surf |-> FALSE]

Views == {"vgs", "vds", "3d", "all"}

\* a cap of whole samples and half halves of a sample, in halves
Halves(whole, half) == 2 * whole + half

\* the datasets of the overlay runs
Datasets ==
    { <<>>,
      <<Rec("g", <<RowPos, RowZero>>)>>,
      <<Rec("d", <<RowHigh>>)>>,
      <<Rec("g", <<RowHigh>>), Rec("d", <<>>)>>,
      <<Rec("absent", <<RowNaN, RowInf>>)>>,
      <<Rec("both", <<RowZero>>), Rec("d", <<RowPos>>)>> }

Capped == {d \in Datasets : Len(concat(DataOf(d))) >= 2}

MainArgs ==
    {Args(s, v, l, PosInf, <<1, 2>>) :
        s \in Datasets, v \in Views, l \in {"", "A"}}
    \cup {Args(s, v, "", Halves(1, 1), <<2, 1>>) : s \in Capped, v \in Views}

\* the inputs of the single-call runs: every list of at most MaxRecs records
\* over four kinds and three frames, with and without a cap
Kinds == {"g", "d", "both", "absent"}

CallFrames == {<<>>, <<RowPos>>, <<RowZero, RowHigh>>}

CallSweeps(n) == SeqsUpTo({Rec(t, d) : t \in Kinds, d \in CallFrames}, n)

CallArgs(n, m) ==
    {Args(s, v, "", PosInf, <<1, 2>>) : s \in CallSweeps(n), v \in Views}
    \cup {Args(s, v, "", Halves(1, 1), p) :
            s \in CallSweeps(n), v \in Views, p \in Perms(m)}

\* a call with an explicit opacity, colour override and surface switch
StyleArgs(sweeps, view, label, alpha, color, surf) ==
    [Args(sweeps, view, label, PosInf, <<1, 2>>)
        EXCEPT !.alpha = alpha, !.color = color, !.surf = surf]

RowLow == Row(2, 0 - 1, 4)

\* the datasets of the style runs: three samples of which two have a positive
\* current, three positive samples, no positive sample, three equal points
StyleData ==
    { <<Rec("both", <<RowPos, RowZero, RowHigh>>)>>,
      <<Rec("g", <<RowPos, RowHigh>>), Rec("d", <<RowLow>>)>>,
      <<Rec("g", <<RowZero>>)>>,
      <<Rec("d", <<RowPos, RowPos, RowPos>>)>> }

\* opacities 0 and 0.5 in units of 1 / AlphaUnit
Alphas == {AlphaNone, 0, AlphaUnit \div 2}

StyleInputs ==
    {StyleArgs(s, v, l, al, c, sf) :
        s \in StyleData, v \in {"vgs", "3d", "all"}, l \in {"", "A"},
        al \in Alphas, c \in {"", "black"}, sf \in BOOLEAN}

\* the figures the single-call runs start from: none, or the figure one
\* earlier call has produced
SeedArgs ==
    {Args(s, "all", "A", PosInf, <<1, 2>>) :
        s \in { <<Rec("g", <<RowZero>>), Rec("d", <<RowHigh>>)>> }}

SeedFigs == {NoFig} \cup {ivplot(NoFig, a).f : a \in SeedArgs}

(* ------------------------------ actions -------------------------------- *)
NoArgs == Args(<<>>, "none", "", PosInf, <<>>)

NoCall == [op |-> "none", ok |-> TRUE, a |-> NoArgs, n |-> 0]

NoProbe == [samples |-> <<>>, max_samples |-> PosInf, perm |-> <<>>,
            done |-> FALSE, ok |-> TRUE, out |-> <<>>, idx |-> <<>>]

\* ivplot(sweeps, fig=None, ...): a new figure, handed over only on success
Fresh(a) ==
    /\ \E r \in {ivplot(NoFig, a)} :
          /\ fig' = IF r.ok THEN r.f ELSE fig
          /\ returned' = IF r.ok THEN r.f ELSE NoFig
          /\ call' = [op |-> "fresh", ok |-> r.ok, a |-> a, n |-> call.n + 1]
    /\ UNCHANGED probe

\* ivplot(sweeps, fig=fig, ...): the caller's figure is worked on in place
Overlay(a) ==
    /\ fig # NoFig
    /\ \E r \in {ivplot(fig, a)} :
          /\ fig' = r.f
          /\ returned' = IF r.ok THEN r.f ELSE NoFig
          /\ call' = [op |-> "overlay", ok |-> r.ok, a |-> a, n |-> call.n + 1]
    /\ UNCHANGED probe

\* _downsample(samples, max_samples, rng_seed) on its own
Downsample ==
    /\ ~probe.done
    /\ \E r \in {downsample(probe.samples, probe.max_samples, probe.perm)} :
         probe' = [probe EXCEPT !.done = TRUE, !.ok = r.ok,
                                 !.out = r.samples, !.idx = r.idx]
    /\ UNCHANGED <<fig, returned, call>>

(* -------- overlay runs: up to MaxCalls calls on the datasets ----------- *)
Init ==
    /\ fig = NoFig
    /\ returned = NoFig
    /\ call = NoCall
    /\ probe = NoProbe

FreshCall == call.n < MaxCalls /\ \E a \in MainArgs : Fresh(a)

OverlayCall == call.n < MaxCalls /\ \E a \in MainArgs : Overlay(a)

Next == FreshCall \/ OverlayCall

Spec == Init /\ [][Next]_vars

(* -------- single-call runs: one call with any of CallArgs -------------- *)
InitCall ==
    /\ fig \in SeedFigs
    /\ returned = fig
    /\ call = NoCall
    /\ probe = NoProbe

\* a caller who holds no figure starts one, a caller who holds one overlays
FreshOne ==
    /\ call.n < 1 /\ fig = NoFig
    /\ \E a \in CallArgs(MaxRecs, MaxPool) : Fresh(a)

OverlayOne ==
    /\ call.n < 1
    /\ \E a \in CallArgs(MaxRecs, MaxPool) : Overlay(a)

NextCall == FreshOne \/ OverlayOne

SpecCall == InitCall /\ [][NextCall]_vars

(* -------- style runs: one call with any opacity, colour and mode ------- *)
FreshStyle ==
    /\ call.n < 1 /\ fig = NoFig
    /\ \E a \in StyleInputs : Fresh(a)

OverlayStyle ==
    /\ call.n < 1
    /\ \E a \in StyleInputs : Overlay(a)

NextStyle == FreshStyle \/ OverlayStyle

SpecStyle == InitCall /\ [][NextStyle]_vars

(* -------- downsampling runs: _downsample on every small input ---------- *)
DownRows == {RowPos, RowZero, RowHigh}

Caps == {PosInf} \cup ((0 - 2) .. (2 * MaxRows + 1))

InitDown ==
    /\ fig = NoFig
    /\ returned = NoFig
    /\ call = NoCall
    /\ \E s \in SeqsUpTo(DownRows, MaxRows) :
         \E c \in Caps, p \in Perms(Len(s)) :
            probe = [NoProbe EXCEPT !.samples = s, !.max_samples = c,
                                    !.perm = p]

NextDown == Downsample

SpecDown == InitDown /\ [][NextDown]_vars

(* -------- opacity runs: adaptive_alpha on every small sample count ----- *)
MaxN == 1100

InitAlpha ==
    /\ fig = NoFig
    /\ returned = NoFig
    /\ call = NoCall
    /\ \E n \in (0 - 3) .. MaxN :
         probe = [n |-> n, done |-> FALSE, alpha |-> 0, next |-> 0]

\* adaptive_alpha(n) and adaptive_alpha(n + 1) on their own
AdaptiveAlphaCall ==
    /\ ~probe.done
    /\ probe' = [probe EXCEPT !.done = TRUE,
                              !.alpha = adaptive_alpha(probe.n),
                              !.next = adaptive_alpha(probe.n + 1)]
    /\ UNCHANGED <<fig, returned, call>>

NextAlpha == AdaptiveAlphaCall

SpecAlpha == InitAlpha /\ [][NextAlpha]_vars

(* -------- label runs: calls on a figure that already holds labels ------ *)
LabelNames ==
    <<"L1", "L2", "L3", "L4", "L5", "L6", "L7", "L8", "L9", "L10", "L11",
      "L12">>

LabelData == <<Rec("g", <<RowPos>>)>>

\* the figure after one unlabeled call and k overlay calls that bring the
\* labels L1 .. Lk, one each
RECURSIVE LabelRun(_)
LabelRun(k) ==
    IF k = 0
    THEN ivplot(NoFig, Args(LabelData, "all", "", PosInf, <<1, 2>>)).f
    ELSE Then(LabelRun(k - 1),
              LAMBDA f : ivplot(f, Args(LabelData, "3d", LabelNames[k],
                                        PosInf, <<1, 2>>)).f)

LabelArgs ==
    {Args(LabelData, v, l, PosInf, <<1, 2>>) :
        v \in {"3d", "all"},
        l \in {"", LabelNames[1], LabelNames[MaxPre], LabelNames[MaxPre + 1],
               LabelNames[MaxPre + 2]}}

InitLabels ==
    /\ fig \in {LabelRun(k) : k \in 0..MaxPre}
    /\ returned = fig
    /\ call = NoCall
    /\ probe = NoProbe

FreshLabel == call.n < MaxCalls /\ \E a \in LabelArgs : Fresh(a)

OverlayLabel == call.n < MaxCalls /\ \E a \in LabelArgs : Overlay(a)

NextLabels == FreshLabel \/ OverlayLabel

SpecLabels == InitLabels /\ [][NextLabels]_vars

(* ------------------------------ properties ----------------------------- *)
IsPrefix(s, t) == Len(s) <= Len(t) /\ SubSeq(t, 1, Len(s)) = s

InitRange == <<PosInf, NegInf>>

At(f, row, col) == SelectSeq(f.traces, LAMBDA t : t.row = row /\ t.col = col)

\* the values a colour axis was fed: the colour column of every linear trace
\* of its panel column
Fed(f, col, name) ==
    UNION {{tr.samples[i][name] : i \in 1..Len(tr.samples)} :
            tr \in {At(f, 2, col)[j] : j \in 1..Len(At(f, 2, col))}}

SetMin(S) == CHOOSE x \in S : \A y \in S : x <= y
SetMax(S) == CHOOSE x \in S : \A y \in S : x >= y

\* C1: over the calls that share one figure, both stored colour ranges only
\* widen: the minimum never rises and the maximum never falls, whether the
\* call returns or raises
RangesWiden ==
    call'.op = "overlay" =>
        /\ fig'.ivgs_vds_range[1] <= fig.ivgs_vds_range[1]
        /\ fig'.ivgs_vds_range[2] >= fig.ivgs_vds_range[2]
        /\ fig'.ivds_vgs_range[1] <= fig.ivds_vgs_range[1]
        /\ fig'.ivds_vgs_range[2] >= fig.ivds_vgs_range[2]

C1_RangesOnlyWiden == [][RangesWiden]_vars

\* an overlay call has fed the drain-voltage axis a second time and the
\* stored range is wider than what the first feeding alone gave
C1_Witness ==
    /\ call.op = "overlay"
    /\ Len(At(fig, 2, 1)) >= 2
    /\ IsFinite(fig.ivgs_vds_range[1]) /\ IsFinite(fig.ivgs_vds_range[2])
    /\ LET first == Column(At(fig, 2, 1)[1].samples, "vds")
       IN /\ IsFinite(nanmin(first))
          /\ \/ fig.ivgs_vds_range[1] < nanmin(first)
             \/ fig.ivgs_vds_range[2] > nanmax(first)

\* C2: a call that raises on a figure of the caller leaves its colour ranges,
\* its label table and its trace list as they were before the call
FailureCommitsNothing ==
    (call'.op = "overlay" /\ ~call'.ok) =>
        /\ fig'.ivgs_vds_range = fig.ivgs_vds_range
        /\ fig'.ivds_vgs_range = fig.ivds_vgs_range
        /\ fig'.label_colors = fig.label_colors
        /\ fig'.traces = fig.traces

C2_FailedCallCommitsNothing == [][FailureCommitsNothing]_vars

\* C4: the bounds of a colour axis, and the cmin/cmax handed to the renderer,
\* are the least and the greatest finite value the axis was fed
BoundsOf(f, col, name, range, axis) ==
    LET finite == {v \in Fed(f, col, name) : IsFinite(v)}
    IN finite # {} =>
        /\ range = <<SetMin(finite), SetMax(finite)>>
        /\ axis = range

C4_BoundsAreFiniteUnion ==
    fig # NoFig =>
        /\ BoundsOf(fig, 1, "vds", fig.ivgs_vds_range, fig.coloraxis)
        /\ BoundsOf(fig, 3, "vgs", fig.ivds_vgs_range, fig.coloraxis2)

\* C5: a call on a supplied figure keeps its layout, keeps every earlier
\* trace and every label entry in place and in order, does not put a range
\* back to its initial value, and returns that same figure
OverlayReuses ==
    call'.op = "overlay" =>
        /\ fig'.layout = fig.layout
        /\ IsPrefix(fig.traces, fig'.traces)
        /\ IsPrefix(fig.label_colors, fig'.label_colors)
        /\ fig.has_label_colors => fig'.has_label_colors
        /\ fig.ivgs_vds_range # InitRange => fig'.ivgs_vds_range # InitRange
        /\ fig.ivds_vgs_range # InitRange => fig'.ivds_vgs_range # InitRange
        /\ call'.ok => returned' = fig'

C5_OverlayReusesFigure == [][OverlayReuses]_vars

\* a second call has returned the figure with its own traces after those of
\* the first, the label and the range of the first call still there
C5_Witness ==
    /\ call.op = "overlay" /\ call.ok /\ call.n = 2
    /\ returned = fig
    /\ Len(At(fig, 2, 1)) = 2
    /\ Len(fig.label_colors) = 1 /\ call.a.label = ""
    /\ fig.ivgs_vds_range # InitRange

\* C3: every entry of the label table holds the palette colour of its place,
\* place n (from 0) palette entry n mod 9, no label twice; a call on the
\* figure leaves every entry where and what it was
TableInv ==
    fig # NoFig =>
        LET t == fig.label_colors
        IN \A i \in 1..Len(t) :
            /\ t[i].label # ""
            /\ t[i].color = Palette[((i - 1) % 9) + 1]
            /\ \A j \in 1..Len(t) : t[i].label = t[j].label => i = j

TableKept ==
    call'.op = "overlay" => IsPrefix(fig.label_colors, fig'.label_colors)

C3_LabelColoursStable == []TableInv /\ [][TableKept]_vars

\* a call has brought the tenth label, which takes the first palette colour
\* again, the first and second label still first and second palette colour
C3_Witness ==
    /\ call.op = "overlay" /\ call.ok
    /\ Len(fig.label_colors) = 10
    /\ fig.label_colors[10].label = call.a.label
    /\ fig.label_colors[10].color = "crimson"
    /\ fig.label_colors[1].color = "crimson"
    /\ fig.label_colors[2].color = "royalblue"

(* the traces the call just made has added, and the pools as the          *)
(* specification words them                                                *)
Added ==
    IF call'.op = "overlay"
    THEN SubSeq(fig'.traces, Len(fig.traces) + 1, Len(fig'.traces))
    ELSE fig'.traces

AddedAt(row, col) == SelectSeq(Added, LAMBDA t : t.row = row /\ t.col = col)

GateKinds == {"g", "both", "absent"}
DrainKinds == {"d", "both", "absent"}

RECURSIVE RowsOfKinds(_, _)
RowsOfKinds(sweeps, kinds) ==
    IF sweeps = <<>> THEN <<>>
    ELSE (IF Head(sweeps).type \in kinds THEN Head(sweeps).data ELSE <<>>)
         \o RowsOfKinds(Tail(sweeps), kinds)

HasKind(sweeps, kinds) == \E i \in 1..Len(sweeps) : sweeps[i].type \in kinds

RowSet(rows) == {rows[i] : i \in 1..Len(rows)}

\* the number of samples a pool of N samples keeps under the cap
Kept(N, cap) ==
    IF cap = PosInf \/ cap >= 2 * N THEN N
    ELSE (IF cap > 2 THEN cap ELSE 2) \div 2

\* the panel column col shows the records of the kinds, and only if wanted
PoolShown(col, kinds, wanted) ==
    LET a == call'.a
        rows == RowsOfKinds(a.sweeps, kinds)
        lin == AddedAt(2, col)
    IN IF wanted /\ HasKind(a.sweeps, kinds)
       THEN /\ Len(lin) = 1
            /\ Len(lin[1].samples) = Kept(Len(rows), a.max_samples)
            /\ RowSet(lin[1].samples) \subseteq RowSet(rows)
            /\ a.max_samples = PosInf => lin[1].samples = rows
       ELSE AddedAt(1, col) = <<>> /\ lin = <<>>

\* C6: a call that returns has shown in the gate column the records of kind
\* g, both or none and only for view vgs or all, in the drain column those of
\* kind d, both or none and only for view vds or all, in the 3D column all
\* records and only for view 3d or all; drain-only records under view vgs
\* add nothing and do not raise
Partition ==
    LET a == call'.a
    IN /\ call'.ok =>
            /\ PoolShown(1, GateKinds, a.view \in {"vgs", "all"})
            /\ PoolShown(3, DrainKinds, a.view \in {"vds", "all"})
            /\ PoolShown(2, Kinds, a.view \in {"3d", "all"})
       /\ (a.view = "vgs" /\ ~HasKind(a.sweeps, GateKinds)) =>
            call'.ok /\ Added = <<>>

EmptyPoolSkipped ==
    LET a == call'.a
    IN /\ (a.view = "vgs" /\ RowsOfKinds(a.sweeps, GateKinds) = <<>>) =>
            /\ call'.ok
            /\ call'.op = "overlay" =>
                 fig'.traces = fig.traces
                 /\ fig'.ivgs_vds_range = fig.ivgs_vds_range
       /\ (a.view = "vds" /\ RowsOfKinds(a.sweeps, DrainKinds) = <<>>) =>
            /\ call'.ok
            /\ call'.op = "overlay" =>
                 fig'.traces = fig.traces
                 /\ fig'.ivds_vgs_range = fig.ivds_vgs_range

C7_EmptyPoolIsSkipped == [][EmptyPoolSkipped]_vars

\* C8 as stated: a call that asks for the 3D view and is given no sample at
\* all raises and returns nothing
C8_NoSamples3DFails ==
    (call.op # "none" /\ call.a.view \in {"3d", "all"}
        /\ RowsOfKinds(call.a.sweeps, Kinds) = <<>>)
    => ~call.ok /\ returned = NoFig

\* C8 as amended: a call that asks for the 3D view and is given an empty
\* record list raises and returns nothing
C8_NoRecords3DFails ==
    (call.op # "none" /\ call.a.view \in {"3d", "all"} /\ call.a.sweeps = <<>>)
    => ~call.ok /\ returned = NoFig

\* a call on an existing figure, view all, empty record list, has raised
C8_Witness ==
    /\ call.op = "overlay" /\ call.a.view = "all" /\ call.a.sweeps = <<>>
    /\ ~call.ok /\ returned = NoFig

\* the traces of one 2D column that the call has added, against its pool
TracesOfPool(col, kinds, cvar, axis, logAlways) ==
    LET a == call'.a
        rows == RowsOfKinds(a.sweeps, kinds)
        lin == AddedAt(2, col)
        log == AddedAt(1, col)
    IN rows # <<>> =>
        /\ Len(lin) = 1
        /\ Len(lin[1].samples) = Kept(Len(rows), a.max_samples)
        /\ RowSet(lin[1].samples) \subseteq RowSet(rows)
        /\ lin[1].yscale = "lin" /\ lin[1].coloraxis = axis /\ lin[1].cvar = cvar
        /\ LET pos == SelectSeq(lin[1].samples, LAMBDA r : r.ids > 0)
           IN IF logAlways \/ pos # <<>>
              THEN /\ Len(log) = 1
                   /\ log[1].samples = pos
                   /\ Len(log[1].samples) <= Len(lin[1].samples)
                   /\ log[1].yscale = "log10"
                   /\ log[1].coloraxis = axis /\ log[1].cvar = cvar
              ELSE log = <<>>

TwoTraces(logAlways) ==
    LET a == call'.a
    IN call'.ok =>
        /\ a.view \in {"vgs", "all"} =>
             TracesOfPool(1, GateKinds, "vds", "coloraxis", logAlways)
        /\ a.view \in {"vds", "all"} =>
             TracesOfPool(3, DrainKinds, "vgs", "coloraxis2", logAlways)

\* C9 as stated: a call adds, for each 2D pool with samples, one linear trace
\* of all samples kept and one log trace of those with a current above zero
C9_OneLogOneLinear == [][TwoTraces(TRUE)]_vars

\* C9 as amended: the log trace is added only if a kept sample has a current
\* above zero; otherwise the pool adds its linear trace alone
C9_LogOnlyIfPositive == [][TwoTraces(FALSE)]_vars

\* a gate pool of a zero and a positive current: two points in the linear
\* trace, one in the log trace
C9_Witness ==
    /\ call.op = "fresh" /\ call.ok /\ call.a.view = "vgs"
    /\ Len(fig.traces) = 2
    /\ fig.traces[1].yscale = "log10" /\ fig.traces[1].samples = <<RowHigh>>
    /\ fig.traces[2].yscale = "lin"
    /\ fig.traces[2].samples = <<RowZero, RowHigh>>

\* what _downsample has to give for the probe
DownsampleGives(emptyFails) ==
    LET N == Len(probe.samples)
        cap == probe.max_samples
    IN probe.done =>
        IF cap = PosInf \/ cap >= 2 * N
        THEN probe.ok /\ probe.out = probe.samples
        ELSE IF emptyFails /\ N = 0
        THEN ~probe.ok
        ELSE /\ probe.ok
             /\ Len(probe.out) = (IF cap > 2 THEN cap ELSE 2) \div 2
             /\ Len(probe.idx) = Len(probe.out)
             /\ \A i \in 1..Len(probe.idx) :
                  /\ probe.idx[i] \in 1..N
                  /\ probe.out[i] = probe.samples[probe.idx[i]]
                  /\ \A j \in 1..Len(probe.idx) :
                       probe.idx[i] = probe.idx[j] => i = j

\* C10 as stated: unchanged when the cap is unset or not below the sample
\* count, else floor(max(1, cap)) samples from pairwise distinct positions
C10_Downsample == DownsampleGives(FALSE)

\* C10 as amended: the same, except that an empty input with a cap below
\* zero raises
C10_DownsampleNonEmpty == DownsampleGives(TRUE)

\* three samples under a cap of two and a half: the third and the first
C10_Witness ==
    /\ probe.done /\ probe.ok
    /\ probe.samples = <<RowPos, RowZero, RowHigh>>
    /\ probe.max_samples = 5
    /\ probe.idx = <<3, 1>>
    /\ probe.out = <<RowHigh, RowPos>>

(* ----------------------------- opacity --------------------------------- *)
\* AdaptiveAlpha(n) as the specification words it, in units of 1 / AlphaUnit:
\* 0.8 up to 100 samples, 0.1 from 1000 samples, the line between them
AdaptiveAlpha(n) ==
    IF n <= 100 THEN 7200
    ELSE IF n >= 1000 THEN 900
    ELSE 7200 - 7 * (n - 100)

\* the number of samples in the pool a trace was drawn from
PoolSize(t) ==
    LET a == call'.a
        rows == IF t.col = 1 THEN RowsOfKinds(a.sweeps, GateKinds)
                ELSE IF t.col = 3 THEN RowsOfKinds(a.sweeps, DrainKinds)
                ELSE RowsOfKinds(a.sweeps, Kinds)
    IN Kept(Len(rows), a.max_samples)

OpacityOf(explicit) ==
    (call'.op \in {"fresh", "overlay"} /\ call'.ok) =>
        \A i \in 1..Len(Added) :
            Added[i].opacity =
                IF call'.a.alpha \in explicit THEN call'.a.alpha
                ELSE AdaptiveAlpha(PoolSize(Added[i]))

\* C11: every trace a call adds carries the explicitly supplied opacity,
\* the value 0 included; only with no opacity supplied do the traces carry
\* AdaptiveAlpha(n), n the number of samples in the downsampled pool
C11_ExplicitOpacityKept == [][OpacityOf(Alphas \ {AlphaNone})]_vars

Added3D == SelectSeq(Added, LAMBDA t : t.type \in {"mesh3d", "scatter3d"})

LabelColourShown(modes) ==
    LET a == call'.a
    IN (call'.op \in {"fresh", "overlay"} /\ call'.ok /\ a.surf \in modes) =>
        \A i \in 1..Len(Added3D) :
            Added3D[i].color =
                IF a.label # "" THEN ColorOf(fig'.label_colors, a.label)
                ELSE IF a.color # "" THEN a.color ELSE "gray"

\* C13: in a 3D call with a label the log-scene and the linear-scene trace
\* carry the colour the table holds for the label, as a surface or as a
\* point-cloud and whatever the colour override; without a label they carry
\* the override, or gray when there is none
C13_LabelColourShown == [][LabelColourShown(BOOLEAN)]_vars

Legends == SelectSeq(Added, LAMBDA t : t.showlegend)

\* the legend entries of the call just made; always says that a labelled 3D
\* call shows its entry whatever its currents are
LegendRule(always) ==
    LET a == call'.a
        pos == SelectSeq(RowsOfKinds(a.sweeps, Kinds), LAMBDA r : r.ids > 0)
    IN (call'.op \in {"fresh", "overlay"} /\ call'.ok) =>
        /\ \A i \in 1..Len(Legends) :
              /\ Legends[i].row = 1 /\ Legends[i].col = 2
              /\ a.label # ""
        /\ (a.view \in {"3d", "all"} /\ a.label # "") =>
              Len(Legends) = IF always \/ pos # <<>> THEN 1 ELSE 0
        /\ Len(Legends) <= 1

\* C14: a 3D call with a label adds exactly one trace that shows a legend
\* entry, the one in the log scene; linear-scene traces, traces of calls
\* without a label and 2D traces show none
C14_OneLegendEntry == [][LegendRule(TRUE)]_vars

\* C14, amended: the entry is shown by the log-scene trace only, so a
\* labelled 3D call shows one entry if some sample has a positive current
\* and none otherwise
C14_LegendOnLogScene == [][LegendRule(FALSE)]_vars

\* a labelled call that has added a log-scene trace with the entry and a
\* linear-scene trace without it
C14_Witness ==
    /\ call.op = "overlay" /\ call.ok /\ call.a.label = "A"
    /\ call.a.view = "3d"
    /\ LET n == Len(fig.traces)
       IN /\ n >= 2
          /\ fig.traces[n - 1].row = 1 /\ fig.traces[n - 1].col = 2
          /\ fig.traces[n - 1].showlegend
          /\ fig.traces[n - 1].samples = <<RowPos, RowHigh>>
          /\ fig.traces[n].row = 2 /\ fig.traces[n].col = 2
          /\ ~fig.traces[n].showlegend

(* ------------------------------ layout --------------------------------- *)
\* every record of the call brings at least one sample
WellFed(a) ==
    /\ a.sweeps # <<>>
    /\ \A i \in 1..Len(a.sweeps) : a.sweeps[i].data # <<>>

\* a first call with one of the views returns a figure of the layout of its
\* view, and every trace sits in a panel of that layout
PlacedInLayout(views) ==
    (call.op = "fresh" /\ call.a.view \in views /\ WellFed(call.a)) =>
        /\ call.ok
        /\ fig.layout = IF call.a.view = "3d" THEN "scenes" ELSE "six"
        /\ \A i \in 1..Len(fig.traces) :
              GridType(fig.layout, fig.traces[i].row, fig.traces[i].col)
                  = TraceKind(fig.traces[i])
        /\ call.a.view \in {"3d", "all"} =>
              \E i \in 1..Len(fig.traces) :
                  TraceKind(fig.traces[i]) = "scene"

\* C15: every trace is placed in a panel of the figure's layout: a first
\* call with view 3d builds the two-scene layout and places its scene traces
\* there without error, a first call with another view builds the six-panel
\* layout and its columns receive the traces
C15_TracesPlacedInLayout == PlacedInLayout(Views)

(* ------------------------------- frame --------------------------------- *)
\* what the call just made has left alone, whether it returns or raises; a
\* first call that returns is measured against the empty ranges and the
\* empty table of a new figure
FrameKept ==
    LET a == call'.a
        gate0 == IF call'.op = "overlay" THEN fig.ivgs_vds_range ELSE InitRange
        drain0 == IF call'.op = "overlay" THEN fig.ivds_vgs_range ELSE InitRange
        table0 == IF call'.op = "overlay" THEN fig.label_colors ELSE <<>>
    IN (call'.op = "overlay" \/ (call'.op = "fresh" /\ call'.ok)) =>
        /\ a.view \in {"3d", "vds"} => fig'.ivgs_vds_range = gate0
        /\ a.view \in {"3d", "vgs"} => fig'.ivds_vgs_range = drain0
        /\ fig'.label_colors # table0 =>
              /\ a.view \in {"3d", "all"} /\ a.label # ""
              /\ a.sweeps # <<>>

\* C16: the two colour ranges are touched only by their own panel family: a
\* 3d call leaves both alone, a vgs call leaves the range of the drain
\* panels alone, a vds call the range of the gate panels, and the label
\* table is changed only by calls that build the 3D pool with a label
C16_FrameKept == [][FrameKept]_vars

\* a vgs call on a figure whose drain panels were fed by the call before:
\* two gate traces, one drain trace, the drain range is the first call's
C16_Witness ==
    /\ call.op = "overlay" /\ call.ok /\ call.a.view = "vgs" /\ call.n = 2
    /\ Len(At(fig, 2, 1)) = 2 /\ Len(At(fig, 2, 3)) = 1
    /\ fig.ivds_vgs_range # InitRange
    /\ fig.ivds_vgs_range =
          <<SetMin(Fed(fig, 3, "vgs")), SetMax(Fed(fig, 3, "vgs"))>>

====
